---- MODULE Spec2Model ----
(***************************************************************************)
(* GeminiHelper (src/bot/gemini_helper.py): an adapter object holding      *)
(* self.conversations, a dict from chat id to the list of prior turns, and *)
(* four operations on it.  The three coroutines suspend at every await and *)
(* the async generator also at every yield; between two suspension points  *)
(* the code runs atomically on the event loop, so each action below is one *)
(* such segment.  The vendor SDK (model.start_chat, chat.send_message_     *)
(* async, model.count_tokens_async) is the environment: its answers, chunk *)
(* texts, token counts and failures are nondeterministic inputs.           *)
(***************************************************************************)
EXTENDS Integers, Sequences, FiniteSets, TLC

\* ---------------------------------------------------------------- bounds
MaxCalls == 2
MaxChunks == 2
MaxTokens == 10

\* ---------------------------------------------------------------- inputs
Tasks == {"t1", "t2"}
ConvIds == {1, 2}
Answers == {"A"}
ChunkTexts == {"", "a"}
TokenCounts == {0, MaxTokens}
UpstreamErrors == {[type |-> "UpstreamError", msg |-> "boom"]}

VARIABLES
    conversations,  \* self.conversations: chat id -> sequence of turns
    op,             \* per task: the operation it runs ("none" when idle)
    pc,             \* per task: the suspension point of the call it runs
    cid,            \* per task: the chat_id argument
    query,          \* per task: the query argument
    chat,           \* per task: chat.history of the local ChatSession
    answer,         \* per task: the local variable answer
    out,            \* per task: elements yielded by the async generator
    result,         \* per task: how the call ended
    calls,          \* number of calls started (bounded by MaxCalls)
    before,         \* history: turns stored for cid when the call started
    overlap         \* history: what else ran on cid during the call: "none",
                    \* "call" (another call was in flight) or "reset"

vars == <<conversations, op, pc, cid, query, chat, answer, out, result,
          calls, before, overlap>>

\* ---------------------------------------------------------------- helpers
NoResult == [kind |-> "none"]

\* The turns stored for c; an absent key and an empty list hold no turns.
Turns(conv, c) == IF c \in DOMAIN conv THEN conv[c] ELSE <<>>

\* if chat_id not in self.conversations: self.conversations[chat_id] = []
EnsureConversation(conv, c) ==
    IF c \in DOMAIN conv THEN conv ELSE (c :> <<>>) @@ conv

start_chat_NoHistory(conv, c) == <<>>
\* self.model.start_chat(history=self.conversations.get(chat_id, [])):
\* the session starts from (a copy of) the stored turns.
start_chat(conv, c) ==
    IF c \in DOMAIN conv THEN conv[c] ELSE <<>>

\* chat.history after send_message_async(query) has been answered with a:
\* the session's history followed by the user turn and the model turn.
send_message(h, q, a) ==
    h \o <<[role |-> "user", text |-> q], [role |-> "model", text |-> a]>>

StoreHistory_IfPresent(conv, c, h) ==
    IF c \in DOMAIN conv THEN (c :> h) @@ conv ELSE conv
StoreHistory_Append(conv, c, h) ==
    (c :> (Turns(conv, c) \o SubSeq(h, Len(h) - 1, Len(h)))) @@ conv
\* self.conversations[chat_id] = chat.history
StoreHistory(conv, c, h) ==
    (c :> h) @@ conv

DeleteConversation_Keep(conv, c) == conv
DeleteConversation_All(conv, c) == <<>>
\* if chat_id in self.conversations: del self.conversations[chat_id]
DeleteConversation(conv, c) ==
    [d \in DOMAIN conv \ {c} |-> conv[d]]

ChunkYields_Always(t) == TRUE
\* if chunk.text:
ChunkYields(t) == t # ""

Digit == <<"0", "1", "2", "3", "4", "5", "6", "7", "8", "9">>
RECURSIVE str(_)
\* str(token_count.total_tokens): the decimal numeral of n
str(n) == IF n < 10 THEN Digit[n + 1] ELSE str(n \div 10) \o Digit[(n % 10) + 1]

InProgressStatus_Count == str(0)
\* the status of every yield inside the async for
InProgressStatus == "not_finished"

ErrorPrefix == "An error occurred while communicating with Gemini.\n"

\* raise Exception(f"... {str(e)}") from e
WrappedError(e) ==
    [type |-> "Exception", msg |-> ErrorPrefix \o e.msg, cause |-> e]

\* self.conversations[chat_id] on a missing key
KeyError(c) == [type |-> "KeyError", msg |-> str(c)]

\* The query argument of the k-th call.  The code never inspects a query, so
\* the calls are given pairwise different ones, which tells their turns apart.
Query(k) == "q" \o str(k)

MessageCount_Exchanges(conv, c) == Len(conv[c]) \div 2
\* len(self.conversations[chat_id])
MessageCount(conv, c) == Len(conv[c])

InFlight(p) == pc[p] \notin {"idle", "done"}
CallInFlight(c) == \E p \in Tasks : InFlight(p) /\ cid[p] = c

\* ---------------------------------------------------------------- Init
Init ==
    /\ conversations = <<>>
    /\ op = [p \in Tasks |-> "none"]
    /\ pc = [p \in Tasks |-> "idle"]
    /\ cid = [p \in Tasks |-> 1]
    /\ query = [p \in Tasks |-> ""]
    /\ chat = [p \in Tasks |-> <<>>]
    /\ answer = [p \in Tasks |-> ""]
    /\ out = [p \in Tasks |-> <<>>]
    /\ result = [p \in Tasks |-> NoResult]
    /\ calls = 0
    /\ before = [p \in Tasks |-> <<>>]
    /\ overlap = [p \in Tasks |-> "none"]

\* ------------------------------------------------- bookkeeping of a call
\* Task p enters an operation on c: the history variables of the new call,
\* and every other unfinished or uncollected call on c is overlapped.  Tasks
\* and chat ids are interchangeable, so a call takes t1 when t1 is free and
\* the first call is on chat id 1.
Begin(p, o, c, q) ==
    /\ pc[p] = "idle"
    /\ (p = "t2" => pc["t1"] # "idle")
    /\ (calls = 0 => c = 1)
    /\ calls < MaxCalls
    /\ calls' = calls + 1
    /\ op' = [op EXCEPT ![p] = o]
    /\ cid' = [cid EXCEPT ![p] = c]
    /\ query' = [query EXCEPT ![p] = q]
    /\ before' = [before EXCEPT ![p] = Turns(conversations, c)]
    /\ overlap' = [r \in Tasks |->
                     IF r = p THEN (IF CallInFlight(c) THEN "call" ELSE "none")
                     ELSE IF pc[r] # "idle" /\ cid[r] = c /\ overlap[r] = "none"
                          THEN "call"
                     ELSE overlap[r]]

Raise(p, e) ==
    /\ pc' = [pc EXCEPT ![p] = "done"]
    /\ result' = [result EXCEPT ![p] = [kind |-> "raise", exc |-> e]]

Return(p, v) ==
    /\ pc' = [pc EXCEPT ![p] = "done"]
    /\ result' = [result EXCEPT ![p] = [kind |-> "return", value |-> v]]

ghosts == <<before, overlap>>
locals == <<op, cid, query, chat, answer, out>>

\* ------------------------------------------------- get_chat_response
\* Lines 34-44: create the history if absent, start the chat session, send
\* the message and suspend until it is answered.
get_chat_response_start(p, c) ==
    /\ Begin(p, "chat", c, Query(calls + 1))
    /\ conversations' = EnsureConversation(conversations, c)
    /\ chat' = [chat EXCEPT ![p] = start_chat(conversations', c)]
    /\ pc' = [pc EXCEPT ![p] = "chat_send"]
    /\ UNCHANGED <<answer, out, result>>

\* Lines 36-41, 55-57: start_chat raises.
get_chat_response_start_fail(p, c, e) ==
    /\ Begin(p, "chat", c, Query(calls + 1))
    /\ conversations' = EnsureConversation(conversations, c)
    /\ Raise(p, WrappedError(e))
    /\ UNCHANGED <<chat, answer, out>>

\* Lines 44-51: the answer arrives; store chat.history; suspend on the count.
get_chat_response_sent(p, a) ==
    /\ pc[p] = "chat_send"
    /\ answer' = [answer EXCEPT ![p] = a]
    /\ chat' = [chat EXCEPT ![p] = send_message(chat[p], query[p], a)]
    /\ conversations' = StoreHistory(conversations, cid[p], chat'[p])
    /\ pc' = [pc EXCEPT ![p] = "chat_count"]
    /\ UNCHANGED <<op, cid, query, out, result, calls, ghosts>>

\* Lines 44, 55-57: send_message_async raises.
get_chat_response_send_fail(p, e) ==
    /\ pc[p] = "chat_send"
    /\ Raise(p, WrappedError(e))
    /\ UNCHANGED <<conversations, locals, calls, ghosts>>

\* Lines 51-53: the count arrives; return (answer, str(total_tokens)).
get_chat_response_counted(p, n) ==
    /\ pc[p] = "chat_count"
    /\ Return(p, <<answer[p], str(n)>>)
    /\ UNCHANGED <<conversations, locals, calls, ghosts>>

\* Lines 51, 55-57: count_tokens_async raises.
get_chat_response_count_fail(p, e) ==
    /\ pc[p] = "chat_count"
    /\ Raise(p, WrappedError(e))
    /\ UNCHANGED <<conversations, locals, calls, ghosts>>

\* ------------------------------------------------- reset_chat_history
\* Lines 63-65; synchronous, so it runs between any two segments above.
reset_chat_history(c) ==
    /\ conversations' = DeleteConversation(conversations, c)
    /\ overlap' = [r \in Tasks |->
                     IF pc[r] # "idle" /\ cid[r] = c THEN "reset" ELSE overlap[r]]
    /\ UNCHANGED <<pc, locals, result, calls, before>>

\* ------------------------------------------------- get_conversation_stats
\* Lines 73-76: create the history if absent, suspend on the token count.
get_conversation_stats_start(p, c) ==
    /\ Begin(p, "stats", c, "")
    /\ conversations' = EnsureConversation(conversations, c)
    /\ pc' = [pc EXCEPT ![p] = "stats_count"]
    /\ UNCHANGED <<chat, answer, out, result>>

\* Line 77: the count arrives; the length is read now, after the await.  A
\* reset that ran meanwhile removed the key and the subscript raises KeyError.
get_conversation_stats_counted(p, n) ==
    /\ pc[p] = "stats_count"
    /\ IF cid[p] \in DOMAIN conversations
       THEN Return(p, <<MessageCount(conversations, cid[p]), n>>)
       ELSE Raise(p, KeyError(cid[p]))
    /\ UNCHANGED <<conversations, locals, calls, ghosts>>

\* Line 76: count_tokens_async raises; there is no try around it.
get_conversation_stats_count_fail(p, e) ==
    /\ pc[p] = "stats_count"
    /\ Raise(p, e)
    /\ UNCHANGED <<conversations, locals, calls, ghosts>>

\* ------------------------------------------------- get_chat_response_stream
\* Lines 86-96, run by the consumer's first __anext__.
get_chat_response_stream_start(p, c) ==
    /\ Begin(p, "stream", c, Query(calls + 1))
    /\ conversations' = EnsureConversation(conversations, c)
    /\ chat' = [chat EXCEPT ![p] = start_chat(conversations', c)]
    /\ pc' = [pc EXCEPT ![p] = "stream_send"]
    /\ UNCHANGED <<answer, out, result>>

\* Lines 88-93, 110-112: start_chat raises.
get_chat_response_stream_start_fail(p, c, e) ==
    /\ Begin(p, "stream", c, Query(calls + 1))
    /\ conversations' = EnsureConversation(conversations, c)
    /\ Raise(p, WrappedError(e))
    /\ UNCHANGED <<chat, answer, out>>

\* Lines 96-99: the response stream is open; answer = ''; wait for a chunk.
get_chat_response_stream_opened(p) ==
    /\ pc[p] = "stream_send"
    /\ answer' = [answer EXCEPT ![p] = ""]
    /\ pc' = [pc EXCEPT ![p] = "stream_next"]
    /\ UNCHANGED <<conversations, op, cid, query, chat, out, result,
                   calls, ghosts>>

\* Lines 96, 110-112: send_message_async(stream=True) raises.
get_chat_response_stream_send_fail(p, e) ==
    /\ pc[p] = "stream_send"
    /\ Raise(p, WrappedError(e))
    /\ UNCHANGED <<conversations, locals, calls, ghosts>>

\* Lines 99-102: a chunk with text t arrives; a non-empty one is added to
\* answer and the accumulated text is yielded, an empty one is skipped.  The
\* generator then stays inside the loop: "stream_next" stands for both of its
\* suspension points there, the yield and the wait for the next chunk, which
\* touch nothing but the generator's own locals.  MaxChunks bounds the chunks
\* that carry text; an empty chunk leaves every variable as it was.
get_chat_response_stream_chunk(p, t) ==
    /\ pc[p] = "stream_next"
    /\ Len(out[p]) < MaxChunks
    /\ IF ChunkYields(t)
       THEN /\ answer' = [answer EXCEPT ![p] = @ \o t]
            /\ out' = [out EXCEPT ![p] =
                         Append(@, [text |-> answer'[p],
                                    status |-> InProgressStatus])]
       ELSE UNCHANGED <<answer, out>>
    /\ UNCHANGED <<conversations, op, pc, cid, query, chat, result, calls, ghosts>>

\* Lines 99, 110-112: the stream raises while a chunk is awaited.
get_chat_response_stream_chunk_fail(p, e) ==
    /\ pc[p] = "stream_next"
    /\ Raise(p, WrappedError(e))
    /\ UNCHANGED <<conversations, locals, calls, ghosts>>

\* Lines 99, 105-107: the stream is exhausted; chat.history now holds the
\* exchange; store it; suspend on the count.
get_chat_response_stream_exhausted(p) ==
    /\ pc[p] = "stream_next"
    /\ chat' = [chat EXCEPT ![p] = send_message(chat[p], query[p], answer[p])]
    /\ conversations' = StoreHistory(conversations, cid[p], chat'[p])
    /\ pc' = [pc EXCEPT ![p] = "stream_count"]
    /\ UNCHANGED <<op, cid, query, answer, out, result, calls, ghosts>>

\* Lines 107-108: the count arrives; yield (answer, str(total_tokens)).
get_chat_response_stream_counted(p, n) ==
    /\ pc[p] = "stream_count"
    /\ out' = [out EXCEPT ![p] =
                 Append(@, [text |-> answer[p], status |-> str(n)])]
    /\ pc' = [pc EXCEPT ![p] = "stream_final"]
    /\ UNCHANGED <<conversations, op, cid, query, chat, answer, result,
                   calls, ghosts>>

\* Lines 107, 110-112: count_tokens_async raises.
get_chat_response_stream_count_fail(p, e) ==
    /\ pc[p] = "stream_count"
    /\ Raise(p, WrappedError(e))
    /\ UNCHANGED <<conversations, locals, calls, ghosts>>

\* Line 108, end of the body: the consumer asks once more and the generator
\* ends (StopAsyncIteration).
get_chat_response_stream_finish(p) ==
    /\ pc[p] = "stream_final"
    /\ pc' = [pc EXCEPT ![p] = "done"]
    /\ result' = [result EXCEPT ![p] = [kind |-> "stop"]]
    /\ UNCHANGED <<conversations, locals, calls, ghosts>>

\* The caller takes the outcome of a finished call; the task is free again.
Collect(p) ==
    /\ pc[p] = "done"
    /\ pc' = [pc EXCEPT ![p] = "idle"]
    /\ op' = [op EXCEPT ![p] = "none"]
    /\ cid' = [cid EXCEPT ![p] = 1]
    /\ query' = [query EXCEPT ![p] = ""]
    /\ chat' = [chat EXCEPT ![p] = <<>>]
    /\ answer' = [answer EXCEPT ![p] = ""]
    /\ out' = [out EXCEPT ![p] = <<>>]
    /\ result' = [result EXCEPT ![p] = NoResult]
    /\ before' = [before EXCEPT ![p] = <<>>]
    /\ overlap' = [overlap EXCEPT ![p] = "none"]
    /\ UNCHANGED <<conversations, calls>>

Next ==
    \/ \E p \in Tasks, c \in ConvIds : get_chat_response_start(p, c)
    \/ \E p \in Tasks, c \in ConvIds, e \in UpstreamErrors :
          get_chat_response_start_fail(p, c, e)
    \/ \E p \in Tasks, a \in Answers : get_chat_response_sent(p, a)
    \/ \E p \in Tasks, e \in UpstreamErrors : get_chat_response_send_fail(p, e)
    \/ \E p \in Tasks, n \in TokenCounts : get_chat_response_counted(p, n)
    \/ \E p \in Tasks, e \in UpstreamErrors : get_chat_response_count_fail(p, e)
    \/ \E p \in Tasks, c \in ConvIds : get_conversation_stats_start(p, c)
    \/ \E p \in Tasks, n \in TokenCounts : get_conversation_stats_counted(p, n)
    \/ \E p \in Tasks, e \in UpstreamErrors : get_conversation_stats_count_fail(p, e)
    \/ \E p \in Tasks, c \in ConvIds :
          get_chat_response_stream_start(p, c)
    \/ \E p \in Tasks, c \in ConvIds, e \in UpstreamErrors :
          get_chat_response_stream_start_fail(p, c, e)
    \/ \E p \in Tasks : get_chat_response_stream_opened(p)
    \/ \E p \in Tasks, e \in UpstreamErrors : get_chat_response_stream_send_fail(p, e)
    \/ \E p \in Tasks, t \in ChunkTexts : get_chat_response_stream_chunk(p, t)
    \/ \E p \in Tasks, e \in UpstreamErrors : get_chat_response_stream_chunk_fail(p, e)
    \/ \E p \in Tasks : get_chat_response_stream_exhausted(p)
    \/ \E p \in Tasks, n \in TokenCounts : get_chat_response_stream_counted(p, n)
    \/ \E p \in Tasks, e \in UpstreamErrors : get_chat_response_stream_count_fail(p, e)
    \/ \E p \in Tasks : get_chat_response_stream_finish(p)
    \/ \E c \in ConvIds : reset_chat_history(c)
    \/ \E p \in Tasks : Collect(p)

Spec == Init /\ [][Next]_vars

\* ================================================================ claims
Exchange(p) ==
    <<[role |-> "user", text |-> query[p]], [role |-> "model", text |-> answer[p]]>>

Succeeded(p) == pc[p] = "done" /\ result[p].kind \in {"return", "stop"}
Failed(p) == pc[p] = "done" /\ result[p].kind = "raise"
Sends(p) == op[p] \in {"chat", "stream"}

\* Task p takes the step of a call in this transition, and the chat id it is on.
Acted(p) == pc'[p] # pc[p] \/ out'[p] # out[p]
ActedOn(p) == IF pc[p] = "idle" THEN cid'[p] ELSE cid[p]
Starts(p, c) == pc[p] = "idle" /\ pc'[p] # "idle" /\ cid'[p] = c
StoresNow(p) ==
    /\ pc[p] \in {"chat_send", "stream_next"}
    /\ pc'[p] \in {"chat_count", "stream_count"}

\* t strictly extends s: s is a proper prefix of t.
StrictlyExtends(s, t) == Len(s) < Len(t) /\ SubSeq(t, 1, Len(s)) = s

\* The generator of task p has yielded its last element.
Finished(p) == op[p] = "stream" /\ (pc[p] = "stream_final" \/ Succeeded(p))

IsNumeral(s) ==
    /\ Len(s) > 0
    /\ \A i \in 1..Len(s) : \E k \in 1..10 : SubSeq(s, i, i) = Digit[k]

\* ---------------------------------------------------------------- C1
\* C1: a reset of c that runs with no call for c in flight leaves c without
\* stored history; c stays so until the next operation on c begins; a chat
\* or stream call that begins on such a c starts its session from the empty
\* history, and a stats call that began on it and was not overlapped
\* reports 0 messages.
C1_ResetEmptiesHistory ==
    [][ /\ \A c \in ConvIds :
             (reset_chat_history(c) /\ ~CallInFlight(c))
                 => c \notin DOMAIN conversations'
        /\ \A c \in ConvIds :
             (c \notin DOMAIN conversations /\ ~CallInFlight(c)
                  /\ ~\E p \in Tasks : Starts(p, c))
                 => c \notin DOMAIN conversations'
        /\ \A p \in Tasks, c \in ConvIds :
             (Starts(p, c) /\ c \notin DOMAIN conversations)
                 => /\ before'[p] = <<>>
                    /\ pc'[p] \in {"chat_send", "stream_send"} => chat'[p] = <<>>
        /\ \A p \in Tasks :
             (pc[p] = "stats_count" /\ pc'[p] = "done" /\ before[p] = <<>>
                  /\ overlap[p] = "none" /\ result'[p].kind = "return")
                 => result'[p].value[1] = 0
      ]_vars

\* A call stored history for c and ended, then c was reset, and the next
\* call on c, overlapped by nothing, is under way from the empty history.
C1_Witness ==
    \E p, r \in Tasks :
        /\ p # r /\ cid[p] = cid[r]
        /\ Succeeded(r) /\ Sends(r) /\ overlap[r] = "reset"
        /\ pc[p] = "chat_send" /\ overlap[p] = "none"
        /\ chat[p] = <<>>
        /\ conversations[cid[p]] = <<>>

\* ---------------------------------------------------------------- C2
\* C2: when a chat call, or a stream call consumed to its end, has succeeded
\* and no other operation on its chat id overlapped it, the stored history
\* is the history stored when the call began followed by the user turn
\* carrying the query and the model turn carrying the answer.
C2_ExchangeAppended ==
    \A p \in Tasks :
        (Succeeded(p) /\ Sends(p) /\ overlap[p] = "none")
            => /\ cid[p] \in DOMAIN conversations
               /\ conversations[cid[p]] = before[p] \o Exchange(p)
               /\ Len(conversations[cid[p]]) = Len(before[p]) + 2

C2_Witness ==
    \E p \in Tasks :
        /\ Succeeded(p) /\ Sends(p) /\ overlap[p] = "none"
        /\ before[p] # <<>>
        /\ conversations[cid[p]] = before[p] \o Exchange(p)

\* ---------------------------------------------------------------- C3
\* C3 as stated: in a successful stream call every yielded text strictly
\* extends the text yielded before it, the final element included.
C3_EveryTextExtends ==
    \A p \in Tasks :
        (op[p] = "stream" /\ Succeeded(p))
            => \A i \in 2..Len(out[p]) :
                   StrictlyExtends(out[p][i - 1].text, out[p][i].text)

\* C3 amended: the texts yielded before the final element are non-empty and
\* each strictly extends the one before it; once the generator has finished
\* there is exactly one more element, the final one, and its text repeats
\* the last text yielded before it (the empty text when none was).
C3_GrowingThenFinal ==
    \A p \in Tasks :
        op[p] = "stream" =>
            LET o == out[p]
                n == Len(o)
                k == IF Finished(p) THEN n - 1 ELSE n
            IN  /\ k >= 0
                /\ k <= MaxChunks
                /\ \A i \in 1..k : o[i].text # ""
                /\ \A i \in 2..k : StrictlyExtends(o[i - 1].text, o[i].text)
                /\ Finished(p) =>
                      o[n].text = (IF k > 0 THEN o[k].text ELSE "")

C3_Witness ==
    \E p \in Tasks :
        /\ op[p] = "stream" /\ Succeeded(p)
        /\ Len(out[p]) = 3
        /\ StrictlyExtends(out[p][1].text, out[p][2].text)
        /\ out[p][3].text = out[p][2].text

\* ---------------------------------------------------------------- C4
\* C4 as stated: every element yielded before the final one has the status
\* "in_progress".
C4_StatusInProgress ==
    \A p \in Tasks :
        op[p] = "stream" =>
            \A i \in 1..Len(out[p]) :
                (i < Len(out[p]) \/ ~Finished(p))
                    => out[p][i].status = "in_progress"

\* C4 amended: every element yielded before the final one has the status
\* "not_finished", and the final element alone has a status that is a
\* token count, written as a decimal numeral.
C4_StatusNotFinished ==
    \A p \in Tasks :
        op[p] = "stream" =>
            \A i \in 1..Len(out[p]) :
                IF i < Len(out[p]) \/ ~Finished(p)
                THEN /\ out[p][i].status = "not_finished"
                     /\ ~IsNumeral(out[p][i].status)
                ELSE /\ IsNumeral(out[p][i].status)
                     /\ \E n \in TokenCounts : out[p][i].status = str(n)

C4_Witness ==
    \E p \in Tasks :
        /\ op[p] = "stream" /\ Succeeded(p)
        /\ Len(out[p]) = 3
        /\ out[p][2].status = "not_finished"
        /\ out[p][3].status = "10"

\* ---------------------------------------------------------------- C5
\* C5: no call ends by raising an upstream failure itself; whenever an
\* upstream call failed, the caller gets the generic wrapped error.
C5_UpstreamFailuresWrapped ==
    \A p \in Tasks :
        Failed(p) =>
            /\ result[p].exc \notin UpstreamErrors
            /\ result[p].exc.type # "UpstreamError"

\* ---------------------------------------------------------------- C6
\* C6: when a chat or stream call that nothing overlapped has ended by
\* raising, the turns stored for its chat id are those stored when it began.
C6_FailedCallKeepsHistory ==
    \A p \in Tasks :
        (Failed(p) /\ Sends(p) /\ overlap[p] = "none")
            => Turns(conversations, cid[p]) = before[p]

\* ---------------------------------------------------------------- C7
\* C7: a step of get_conversation_stats leaves the turns stored for every
\* chat id as they were; when it begins on an id without history it creates
\* the empty history; when it returns, the message count is the number of
\* turns stored for its id at that moment.
C7_StatsCountsAndKeeps ==
    [][ \A p \in Tasks :
          (Acted(p) /\ op'[p] = "stats") =>
              /\ \A d \in ConvIds :
                     Turns(conversations', d) = Turns(conversations, d)
              /\ IF pc[p] = "idle"
                 THEN /\ DOMAIN conversations' = DOMAIN conversations \cup {cid'[p]}
                      /\ cid'[p] \notin DOMAIN conversations
                             => conversations'[cid'[p]] = <<>>
                 ELSE conversations' = conversations
              /\ (pc'[p] = "done" /\ result'[p].kind = "return")
                     => result'[p].value[1] = Len(conversations'[cid[p]])
      ]_vars

C7_Witness ==
    \E p \in Tasks :
        /\ op[p] = "stats" /\ Succeeded(p)
        /\ result[p].value[1] = 2
        /\ Len(conversations[cid[p]]) = 2

\* ---------------------------------------------------------------- C8
\* C8: when two chat or stream calls on one chat id have both succeeded from
\* the same starting history, the stored history never holds both of their
\* exchanges: it is the starting history plus one of the two (or empty,
\* after a reset).
C8_OneExchangeSurvives ==
    \A p, r \in Tasks :
        (p # r /\ cid[p] = cid[r] /\ Sends(p) /\ Sends(r)
             /\ Succeeded(p) /\ Succeeded(r) /\ before[p] = before[r])
            => Turns(conversations, cid[p]) \in
                   {<<>>, before[p] \o Exchange(p), before[r] \o Exchange(r)}

\* Both calls were in flight together, no reset ran, both succeeded, and the
\* history grew by one exchange only: the other one is lost.
C8_Witness ==
    \E p, r \in Tasks :
        /\ p # r /\ cid[p] = cid[r] /\ Sends(p) /\ Sends(r)
        /\ Succeeded(p) /\ Succeeded(r)
        /\ overlap[p] = "call" /\ overlap[r] = "call"
        /\ before[p] = before[r]
        /\ Exchange(p) # Exchange(r)
        /\ conversations[cid[p]] = before[p] \o Exchange(p)
        /\ Len(conversations[cid[p]]) = Len(before[p]) + 2

C10_Isolation ==
    [][ /\ \A p \in Tasks :
             Acted(p) =>
                 \A d \in ConvIds \ {ActedOn(p)} :
                     /\ (d \in DOMAIN conversations') = (d \in DOMAIN conversations)
                     /\ Turns(conversations', d) = Turns(conversations, d)
        /\ \A c \in ConvIds :
             reset_chat_history(c) =>
                 /\ \A d \in ConvIds \ {c} :
                        /\ (d \in DOMAIN conversations') = (d \in DOMAIN conversations)
                        /\ Turns(conversations', d) = Turns(conversations, d)
                 /\ c \notin DOMAIN conversations => conversations' = conversations
      ]_vars

\* Chat id 2 had history and was reset while the history of chat id 1 stayed.
C10_Witness ==
    \E p \in Tasks :
        /\ Succeeded(p) /\ Sends(p) /\ cid[p] = 2 /\ overlap[p] = "reset"
        /\ 2 \notin DOMAIN conversations
        /\ 1 \in DOMAIN conversations /\ Len(conversations[1]) = 2

====
